---- MODULE Spec2Model ----
(***************************************************************************)
(* A model of the parakeet ASR server's transcription core:                *)
(*   - the RIFF/WAVE reader (parseWAV, convertToFloat32, resample),        *)
(*   - Transcriber.Transcribe with runInference and the TDT greedy loop    *)
(*     tdtDecode, one step per call into the tensor runtime,               *)
(*   - the lifecycle of the process-wide runtime environment               *)
(*     (NewTranscriber, Close, server.New, main),                          *)
(*   - the functions resample, MelFilterbank.Extract, loadVocab,           *)
(*     tokensToText and convertToFloat32 called on their own, with         *)
(*     float64 and float32 arithmetic computed bit by bit,                 *)
(*   - requests served at the same time on one Transcriber.                *)
(*                                                                         *)
(* The tensor runtime (onnxruntime_go) is an external library.  It is      *)
(* modelled by its contract: every call may fail, a call other than        *)
(* InitializeEnvironment fails while the environment is not initialized,   *)
(* InitializeEnvironment fails while the environment is initialized.       *)
(***************************************************************************)
EXTENDS Integers, Sequences, FiniteSets, TLC

VARIABLES
    \* ---- the request in flight (Transcriber.Transcribe and its callees)
    pc,             \* position of the request
    audioData,      \* Transcribe's audioData argument
    format,         \* Transcribe's format argument
    parsed,         \* loadAudio handed the payload to parseWAV
    waveformLen,    \* len(waveform) after loadAudio, -1 before
    numFrames,      \* len(features) after mel.Extract
    inferenceRan,   \* runInference has been entered for this request
    encodedLen,     \* actualEncodedLen, read from encoded_lengths[0]
    timestep, emittedTokens, prevToken, tokens, state1, state2,
    created,        \* tdtDecode: tensors of this iteration created so far
    decToken, decStep, \* argmax results of the current iteration
    iters,          \* completed tdtDecode iterations of this request
    stall,          \* completed iterations since timestep last increased
    live,           \* runtime objects alive: name -> count
    dupDestroy,     \* some Destroy hit an object that was not alive
    defers,         \* runInference's deferred Destroy calls, last first
    cleanup,        \* tdtDecode's Destroy calls still to run on this path
    rtErr,          \* error on its way up from runInference/tdtDecode
    result,         \* what Transcribe returned
    \* ---- the Transcriber (set by NewTranscriber)
    vocab, vocabSize, blankIdx,
    \* ---- the process
    envInit,        \* the runtime environment is initialized
    nInit,          \* successful ort.InitializeEnvironment calls
    nDestroyEnv,    \* ort.DestroyEnvironment calls that destroyed it
    transcribers,   \* Transcribers NewTranscriber has returned
    pcMain,         \* position of main
    calls,          \* API calls made by the client so far
    \* ---- functions called on their own
    fnCall,         \* the last call: function, arguments, return value
    \* ---- requests served at the same time on one Transcriber
    cpc,            \* request -> its position
    cidx,           \* request -> objects created so far at this position
    csteps,         \* request -> completed tdtDecode iterations
    locals,         \* request -> the runtime objects its locals hold
    fields,         \* the runtime objects the Transcriber's fields hold
    fieldWrites,    \* writes to a Transcriber field since NewTranscriber
    foreign         \* a request used or destroyed an object of another

vars == << pc, audioData, format, parsed, waveformLen, numFrames, inferenceRan,
           encodedLen, timestep, emittedTokens, prevToken, tokens, state1,
           state2, created, decToken, decStep, iters, stall, live, dupDestroy,
           defers, cleanup, rtErr, result, vocab, vocabSize, blankIdx,
           envInit, nInit, nDestroyEnv, transcribers, pcMain, calls, fnCall,
           cpc, cidx, csteps, locals, fields, fieldWrites, foreign >>

reqVars == << pc, audioData, format, parsed, waveformLen, numFrames,
              inferenceRan, encodedLen, timestep, emittedTokens, prevToken,
              tokens, state1, state2, created, decToken, decStep, iters,
              stall, live, dupDestroy, defers, cleanup, rtErr, result >>

decVars == << timestep, emittedTokens, prevToken, tokens, state1, state2,
              created, decToken, decStep, iters, stall >>

objVars == << vocab, vocabSize, blankIdx >>

procVars == << envInit, nInit, nDestroyEnv, transcribers, pcMain, calls >>

fnVars == << fnCall >>

concVars == << cpc, cidx, csteps, locals, fields, fieldWrites, foreign >>

Min(a, b) == IF a < b THEN a ELSE b

-----------------------------------------------------------------------------
(* Bounds of the model.                                                    *)

\* longest chunk list of a generated payload
MaxChunks == 2
\* largest encoder length the runtime reports in encoded_lengths[0]
MaxEncLen == 2
\* API calls a client makes in the lifecycle specification
MaxCalls == 4

-----------------------------------------------------------------------------
(* Program constants.                                                      *)

MinWavLen == 44
RiffHeaderLen == 12
ChunkHeaderLen == 8
FmtMinSize == 16
FmtReadEnd == 24
TargetRate == 16000
MinSamples == 1600
WinLength == 400
HopLength == 160
MaxTokensPerStep == 10
NumDurationClasses == 5

-----------------------------------------------------------------------------
(* Errors.  The code builds errors with fmt.Errorf; an error value is      *)
(* modelled by its message, KindOf gives the behavioural kind of §7.       *)

ErrTooSmall == "WAV file too small"
ErrNotRIFF == "not a RIFF file"
ErrNotWAVE == "not a WAVE file"
ErrFmtTooSmall == "fmt chunk too small"
ErrNoData == "no data chunk found"
ErrFormat == "unsupported audio format"
ErrBits == "unsupported bits per sample"
ErrFfmpeg == "format requires ffmpeg conversion - not yet implemented"
ErrNoFeatures == "no features extracted"
ErrRuntime == "runtime call failed"

KindOf(e) ==
    CASE e \in {ErrTooSmall, ErrNotRIFF, ErrNotWAVE, ErrFmtTooSmall, ErrNoData}
           -> "MalformedContainer"
      [] e \in {ErrFormat, ErrBits, ErrFfmpeg} -> "UnsupportedEncoding"
      [] e = ErrRuntime -> "InferenceFailed"
      [] OTHER -> "Other"

Ok(n) == [kind |-> "ok", n |-> n]
Err(e) == [kind |-> "err", err |-> e]
Panic == [kind |-> "panic"]

-----------------------------------------------------------------------------
(* Payloads.  A payload is given by what parseWAV can read of it: its      *)
(* length, the spare capacity of the slice behind it, the two magics, the  *)
(* chunk headers the walk meets in order (tag, declared size) and the      *)
(* four fields a "fmt " chunk carries.  Bytes after the listed chunks are  *)
(* zero.                                                                   *)

Fmt(af, ch, sr, bits) ==
    [audioFormat |-> af, numChannels |-> ch, sampleRate |-> sr,
     bitsPerSample |-> bits]

Pcm16Mono == Fmt(1, 1, 16000, 16)

Chunk(id, size) == [id |-> id, size |-> size]

Payload(len, spare, riff, wave, chunks, f) ==
    [len |-> len, spare |-> spare, riff |-> riff, wave |-> wave,
     chunks |-> chunks, fmt |-> f]

Wav(len, chunks, f) == Payload(len, 0, "RIFF", "WAVE", chunks, f)

ChunkIds == {"fmt ", "data", "LIST"}
ChunkSizes == {0, 3, 16, 100}
Chunks == {Chunk(id, s) : id \in ChunkIds, s \in ChunkSizes}

RECURSIVE SeqsUpTo(_, _)
SeqsUpTo(S, n) ==
    IF n = 0 THEN {<< >>}
    ELSE LET shorter == SeqsUpTo(S, n - 1)
         IN  shorter \cup {Append(s, x) : s \in shorter, x \in S}

\* container structure: lengths, spare capacity and chunk lists vary
StructPayloads ==
    {Payload(len, spare, "RIFF", "WAVE", cs, Pcm16Mono) :
        len \in {43, 44, 46, 60}, spare \in {0, 512},
        cs \in SeqsUpTo(Chunks, MaxChunks)}

\* magics vary
MagicPayloads ==
    {Payload(46, 0, riff, wave,
             << Chunk("fmt ", 16), Chunk("data", 2) >>, Pcm16Mono) :
        riff \in {"RIFF", "RIFX"}, wave \in {"WAVE", "AVI "}}

\* fmt fields vary under a well-formed structure
FmtPayloads ==
    {Wav(MinWavLen + d + pad, << Chunk("fmt ", 16), Chunk("data", d) >>,
         Fmt(af, ch, sr, bits)) :
        d \in {0, 1, 2, 8}, pad \in {0, 2},
        af \in {1, 2, 3}, ch \in {0, 1, 2}, sr \in {8000, 16000},
        bits \in {4, 8, 12, 16, 24, 32}}

\* well-formed recordings around the 1600-sample threshold
LongPayloads ==
    {Wav(MinWavLen + d, << Chunk("fmt ", 16), Chunk("data", d) >>,
         Fmt(1, 1, sr, 16)) :
        d \in {3198, 3200}, sr \in {16000, 32000}}

Payloads == StructPayloads \cup MagicPayloads \cup FmtPayloads \cup LongPayloads

-----------------------------------------------------------------------------
(* float64 arithmetic.  A positive float64 is m * 2^e with a 53-bit         *)
(* mantissa m in [2^52, 2^53); a mantissa is held in two halves,           *)
(* hi * 2^27 + lo, because it does not fit one machine integer of the      *)
(* model checker.  Division rounds to nearest, ties to even, as the        *)
(* hardware does.  Only zero and positive normal numbers occur.            *)

Half27 == 134217728        \* 2^27
MantBits == 53

Big(hi, lo) == [hi |-> hi, lo |-> lo]
BigOfInt(k) == Big(k \div Half27, k % Half27)
BigGe(a, b) == a.hi > b.hi \/ (a.hi = b.hi /\ a.lo >= b.lo)
BigSub(a, b) ==
    IF a.lo >= b.lo THEN Big(a.hi - b.hi, a.lo - b.lo)
    ELSE Big(a.hi - b.hi - 1, a.lo + Half27 - b.lo)
BigDouble(a) == Big(2 * a.hi + (2 * a.lo) \div Half27, (2 * a.lo) % Half27)
BigHalve(a) == Big(a.hi \div 2, (a.hi % 2) * (Half27 \div 2) + a.lo \div 2)
BigInc(a) ==
    IF a.lo + 1 = Half27 THEN Big(a.hi + 1, 0) ELSE Big(a.hi, a.lo + 1)
BigOdd(a) == a.lo % 2 = 1

RECURSIVE Pow2(_)
Pow2(k) == IF k = 0 THEN 1 ELSE 2 * Pow2(k - 1)

\* 2^52 and 2^53 as mantissas
MantMin == Big(Pow2(MantBits - 1 - 27), 0)
MantTop == Big(Pow2(MantBits - 27), 0)

F64Zero == [zero |-> TRUE, m |-> Big(0, 0), e |-> 0]
F64(m, e) == [zero |-> FALSE, m |-> m, e |-> e]

RECURSIVE Normalize(_, _)
Normalize(m, e) ==
    IF BigGe(m, MantMin) THEN F64(m, e) ELSE Normalize(BigDouble(m), e - 1)

\* float64(k) for an int k >= 0 below 2^31: exact
F64OfInt(k) == IF k = 0 THEN F64Zero ELSE Normalize(BigOfInt(k), 0)

\* i quotient bits of r / d by shift and subtract: the quotient so far
\* and the remainder
RECURSIVE DivBits(_, _, _, _)
DivBits(r, d, q, i) ==
    IF i = 0 THEN [q |-> q, r |-> r]
    ELSE IF q.hi >= 0 /\ BigGe(r, d)
         THEN DivBits(BigDouble(BigSub(r, d)), d, BigInc(BigDouble(q)), i - 1)
         ELSE DivBits(BigDouble(r), d, BigDouble(q), i - 1)

\* a / b, b > 0: 54 quotient bits, the last one the rounding bit, the
\* remainder the sticky bit; by a power of two the quotient is exact
F64Div(a, b) ==
    IF a.zero THEN F64Zero
    ELSE IF b.m = MantMin THEN F64(a.m, a.e - b.e - (MantBits - 1))
    ELSE LET ge == BigGe(a.m, b.m)
             qr == DivBits(a.m, b.m, Big(0, 0),
                           IF ge THEN MantBits + 1 ELSE MantBits + 2)
             m0 == BigHalve(qr.q)
             up == BigOdd(qr.q) /\ (qr.r # Big(0, 0) \/ BigOdd(m0))
             m1 == IF up THEN BigInc(m0) ELSE m0
             e0 == a.e - b.e - (IF ge THEN MantBits - 1 ELSE MantBits)
         IN  IF m1 = MantTop THEN F64(MantMin, e0 + 1) ELSE F64(m1, e0)

\* a >> k
BigShiftRight(a, k) ==
    IF k >= 27 THEN Big(0, a.hi \div Pow2(k - 27))
    ELSE Big(a.hi \div Pow2(k),
             (a.hi % Pow2(k)) * Pow2(27 - k) + a.lo \div Pow2(k))

\* int(x) for x >= 0 below 2^31: truncation
F64ToInt(x) ==
    IF x.zero \/ -x.e > MantBits THEN 0
    ELSE IF x.e > 0 THEN -1              \* beyond the range of int
    ELSE LET t == BigShiftRight(x.m, -x.e) IN t.hi * Half27 + t.lo

-----------------------------------------------------------------------------
(* resample: the length of the result and whether it is the argument       *)
(* itself.                                                                 *)

\* ratio := float64(srcRate) / float64(dstRate)
\* newLen := int(float64(len(samples)) / ratio)
ResampleLen(n, srcRate, dstRate) ==
    IF srcRate = dstRate THEN n
    ELSE LET ratio == F64Div(F64OfInt(srcRate), F64OfInt(dstRate))
         IN  F64ToInt(F64Div(F64OfInt(n), ratio))

Resample(n, srcRate, dstRate) ==
    [len |-> ResampleLen(n, srcRate, dstRate), same |-> srcRate = dstRate]

(* convertToFloat32 on a data chunk of dataLen bytes.                      *)
ConvertToFloat32(dataLen, audioFormat, numChannels, bitsPerSample) ==
    IF audioFormat # 1 /\ audioFormat # 3 THEN Err(ErrFormat)
    ELSE LET bytesPerSample == bitsPerSample \div 8
             frame == bytesPerSample * numChannels
         IN  IF frame = 0 THEN Panic      \* integer divide by zero
             ELSE LET numSamples == dataLen \div frame
                  IN  IF numSamples > 0 /\ bitsPerSample \notin {8, 16, 24, 32}
                      THEN Err(ErrBits)   \* default case, first sample
                      ELSE Ok(numSamples)

(* Sample values.  A float64 is a NaN, an infinity or a finite number: a  *)
(* sign and a magnitude that is zero or m * 2^e as above.  The sign of a   *)
(* zero is not kept: no comparison tells -0 from 0.                        *)

NaN == [kind |-> "nan", neg |-> FALSE, f |-> F64Zero]
Inf(neg) == [kind |-> "inf", neg |-> neg, f |-> F64Zero]
Fin(neg, f) == [kind |-> "fin", neg |-> neg /\ ~f.zero, f |-> f]

\* 2^k
F64Pow2(k) == F64(MantMin, k - (MantBits - 1))

\* float64(sample) for an int32 sample: exact
F64OfInt32(s) ==
    IF s >= 0 THEN Fin(FALSE, F64OfInt(s))
    ELSE Fin(TRUE, Normalize(BigInc(BigOfInt(-(s + 1))), 0))

BigAdd(a, b) ==
    Big(a.hi + b.hi + (a.lo + b.lo) \div Half27, (a.lo + b.lo) % Half27)

\* a >> k for a > 0 below 2^56, the bits shifted out kept as a sticky
\* lowest bit
BigShiftRightJam(a, k) ==
    IF k = 0 THEN a
    ELSE IF k >= 56 THEN Big(0, 1)
    ELSE LET q == BigShiftRight(a, k)
             lost == IF k <= 27 THEN a.lo % Pow2(k) # 0
                     ELSE a.lo # 0 \/ a.hi % Pow2(k - 27) # 0
         IN  IF lost /\ ~BigOdd(q) THEN BigInc(q) ELSE q

\* s * 2^e with s in [2^55, 2^56): the three lowest bits of s are the
\* guard, round and sticky bit; rounded to nearest, ties to even
RoundGuard(s, e) ==
    LET m0 == BigShiftRight(s, 3)
        g == s.lo % 8
        up == g > 4 \/ (g = 4 /\ BigOdd(m0))
        m1 == IF up THEN BigInc(m0) ELSE m0
    IN  IF m1 = MantTop THEN F64(MantMin, e + 4) ELSE F64(m1, e + 3)

\* s * 2^e with 0 < s < 2^57, brought into [2^55, 2^56) and rounded
RECURSIVE NormGuard(_, _)
NormGuard(s, e) ==
    IF BigGe(s, Big(Pow2(29), 0))
    THEN RoundGuard(BigShiftRightJam(s, 1), e + 1)
    ELSE IF BigGe(s, Big(Pow2(28), 0))
         THEN RoundGuard(s, e)
         ELSE NormGuard(BigDouble(s), e - 1)

\* |a| >= |b| for positive a and b
F64Ge(a, b) == a.e > b.e \/ (a.e = b.e /\ BigGe(a.m, b.m))

\* a + b, or a - b if sub, for positive a >= b
F64Sum(a, b, sub) ==
    LET wa == BigDouble(BigDouble(BigDouble(a.m)))
        wb == BigShiftRightJam(BigDouble(BigDouble(BigDouble(b.m))), a.e - b.e)
        s == IF sub THEN BigSub(wa, wb) ELSE BigAdd(wa, wb)
    IN  IF s = Big(0, 0) THEN F64Zero ELSE NormGuard(s, a.e - 3)

\* x + y in float64
NumAdd(x, y) ==
    IF x.kind = "nan" \/ y.kind = "nan" THEN NaN
    ELSE IF x.kind = "inf"
         THEN IF y.kind = "inf" /\ y.neg # x.neg THEN NaN ELSE x
    ELSE IF y.kind = "inf" THEN y
    ELSE IF x.f.zero THEN y
    ELSE IF y.f.zero THEN x
    ELSE IF F64Ge(x.f, y.f)
         THEN Fin(x.neg, F64Sum(x.f, y.f, x.neg # y.neg))
         ELSE Fin(y.neg, F64Sum(y.f, x.f, x.neg # y.neg))

\* x / d in float64 for a positive finite d
NumDiv(x, d) == IF x.kind = "fin" THEN Fin(x.neg, F64Div(x.f, d)) ELSE x

\* m >> k rounded to nearest, ties to even; sticky tells that a bit was
\* already shifted out
RECURSIVE RoundShift(_, _, _)
RoundShift(m, k, sticky) ==
    IF k = 1
    THEN LET q == BigHalve(m)
         IN  IF BigOdd(m) /\ (sticky \/ BigOdd(q)) THEN BigInc(q) ELSE q
    ELSE IF m.hi >= 0 /\ (sticky \/ BigOdd(m))
         THEN RoundShift(BigHalve(m), k - 1, TRUE)
         ELSE RoundShift(BigHalve(m), k - 1, FALSE)

\* float32(x): 24 bits at exponents from -126 on, fewer below (subnormal),
\* an infinity beyond the largest float32
Float32(x) ==
    IF x.kind # "fin" \/ x.f.zero THEN x
    ELSE LET expo == x.f.e + (MantBits - 1)
             drop == IF expo >= -126 THEN 29 ELSE Min(29 + (-126 - expo), 55)
             q == RoundShift(x.f.m, drop, FALSE)
         IN  IF q = Big(0, 0) THEN Fin(FALSE, F64Zero)
             ELSE LET r == Normalize(q, x.f.e + drop)
                  IN  IF r.e + (MantBits - 1) > 127 THEN Inf(x.neg)
                      ELSE Fin(x.neg, r)

\* float64(math.Float32frombits(bits)), bits the four bytes b, the lowest
\* first: a sign bit, 8 exponent bits, 23 fraction bits
Float32frombits(b) ==
    LET neg == b[4] >= 128
        expo == (b[4] % 128) * 2 + b[3] \div 128
        frac == (b[3] % 128) * 65536 + b[2] * 256 + b[1]
    IN  IF expo = 255 THEN (IF frac = 0 THEN Inf(neg) ELSE NaN)
        ELSE IF expo = 0
             THEN IF frac = 0 THEN Fin(FALSE, F64Zero)
                  ELSE Fin(neg, Normalize(BigOfInt(frac), -149))
        ELSE Fin(neg, Normalize(BigOfInt(Pow2(23) + frac), expo - 150))

\* the signed integer held in the bytes b, the lowest first, the highest
\* bit of the last byte its sign
SignedLE(b) ==
    LET n == Len(b)
        top == IF b[n] >= 128 THEN b[n] - 256 ELSE b[n]
        low == IF n = 1 THEN 0
               ELSE IF n = 2 THEN b[1]
               ELSE IF n = 3 THEN b[1] + 256 * b[2]
               ELSE b[1] + 256 * b[2] + 65536 * b[3]
    IN  top * Pow2(8 * (n - 1)) + low

\* val of the switch in convertToFloat32 for the bytes b of one channel
SampleVal(b, audioFormat, bitsPerSample) ==
    IF bitsPerSample = 8
    THEN NumAdd(NumDiv(F64OfInt32(b[1]), F64Pow2(7)),
                Fin(TRUE, F64OfInt(1)))
    ELSE IF bitsPerSample = 32 /\ audioFormat = 3 THEN Float32frombits(b)
    ELSE NumDiv(F64OfInt32(SignedLE(b)), F64Pow2(bitsPerSample - 1))

\* sum over the channels ch .. numChannels - 1 of sample i, added to sum
RECURSIVE ChannelSum(_, _, _, _, _, _, _)
ChannelSum(data, i, ch, audioFormat, numChannels, bitsPerSample, sum) ==
    IF ch >= numChannels THEN sum
    ELSE LET bytesPerSample == bitsPerSample \div 8
             offset == (i * numChannels + ch) * bytesPerSample
             b == SubSeq(data, offset + 1, offset + bytesPerSample)
         IN  ChannelSum(data, i, ch + 1, audioFormat, numChannels,
                        bitsPerSample,
                        NumAdd(sum, SampleVal(b, audioFormat, bitsPerSample)))

\* the samples convertToFloat32 returns for the bytes data, when it
\* returns samples
Samples(data, audioFormat, numChannels, bitsPerSample) ==
    LET res == ConvertToFloat32(Len(data), audioFormat, numChannels,
                                bitsPerSample)
    IN  IF res.kind # "ok" THEN << >>
        ELSE [i \in 1 .. res.n |->
                Float32(NumDiv(ChannelSum(data, i - 1, 0, audioFormat,
                                          numChannels, bitsPerSample,
                                          Fin(FALSE, F64Zero)),
                               F64OfInt(numChannels)))]

(* The data-chunk branch of parseWAV's walk.                               *)
ParseData(data, offset, size, f) ==
    LET dataStart == offset + ChunkHeaderLen
        dataEnd   == Min(dataStart + size, data.len)
        conv      == ConvertToFloat32(dataEnd - dataStart, f.audioFormat,
                                      f.numChannels, f.bitsPerSample)
    IN  IF conv.kind # "ok" THEN conv
        ELSE IF f.sampleRate # TargetRate
             THEN Ok(ResampleLen(conv.n, f.sampleRate, TargetRate))
             ELSE conv

(* The loop condition of parseWAV's walk.                                  *)
WalkContinues(data, offset) == offset < data.len - ChunkHeaderLen

(* parseWAV's chunk walk from `offset`, at the i-th chunk of the payload,  *)
(* with the fmt fields read so far.                                        *)
RECURSIVE Walk(_, _, _, _)
Walk(data, offset, i, f) ==
    IF ~WalkContinues(data, offset) THEN Err(ErrNoData)
    ELSE IF i > Len(data.chunks) THEN Err(ErrNoData) \* zero bytes to the end
    ELSE LET c == data.chunks[i]
             next == offset + ChunkHeaderLen + c.size
                     + (IF c.size % 2 # 0 THEN 1 ELSE 0)
         IN  IF c.id = "fmt "
             THEN IF c.size < FmtMinSize THEN Err(ErrFmtTooSmall)
                  ELSE IF offset + FmtReadEnd > data.len + data.spare
                       THEN Panic         \* slice bounds out of range
                       ELSE Walk(data, next, i + 1, data.fmt)
             ELSE IF c.id = "data"
                  THEN ParseData(data, offset, c.size, f)
                  ELSE Walk(data, next, i + 1, f)

ParseWAV(data) ==
    IF data.len < MinWavLen THEN Err(ErrTooSmall)
    ELSE IF data.riff # "RIFF" THEN Err(ErrNotRIFF)
    ELSE IF data.wave # "WAVE" THEN Err(ErrNotWAVE)
    ELSE Walk(data, RiffHeaderLen, 1, Fmt(0, 0, 0, 0))

(* Transcriber.loadAudio: which formats go to parseWAV.                    *)
NonRiffFormats == {".webm", ".ogg", ".mp3", ".m4a"}
Formats == {".wav", ""} \cup NonRiffFormats

\* faulty variant: ".mp3" is missing from the case list and falls to the default
GoesToParseWAV_Mp3(fmtHint) == fmtHint \notin (NonRiffFormats \ {".mp3"})

GoesToParseWAV(fmtHint) == fmtHint \notin NonRiffFormats

LoadAudio(data, fmtHint) ==
    IF GoesToParseWAV(fmtHint) THEN ParseWAV(data) ELSE Err(ErrFfmpeg)

(* MelFilterbank.Extract: the number of frames.  Go's / truncates toward   *)
(* zero, \div rounds down; the two differ for a negative numerator.        *)
GoDiv(a, b) == IF a >= 0 THEN a \div b ELSE -((-a) \div b)

\* faulty variant: frames centred on every hop, the signal padded
ExtractFrames_Padded(n) == n \div HopLength + 1

ExtractFrames(n) ==
    LET nf == GoDiv(n - WinLength, HopLength) + 1
    IN  IF nf <= 0 THEN 0 ELSE nf

\* the samples frame number `frame` (from 0) is computed from:
\* start := frame * hopLength; end := start + winLength, clamped to n
FrameWindow(frame, n) ==
    [start |-> frame * HopLength,
     end   |-> Min(frame * HopLength + WinLength, n)]

\* Extract(samples) with len(samples) = n: for every row its window and
\* its length, make([]float32, m.nMels)
Extract(n, nMels) ==
    [k \in 1 .. ExtractFrames(n) |->
        [window |-> FrameWindow(k - 1, n), width |-> nMels]]

-----------------------------------------------------------------------------
(* Detokenization.  A text is a sequence of code points, each written as  *)
(* a string; Tab is U+0009.                                                *)

Tab == "U+0009"

\* the class \s of the regexp, and the white space strings.TrimSpace cuts
IsSpace(c) == c \in {" ", Tab}

IsControl(piece) ==
    Len(piece) > 0 /\ piece[1] = "<" /\ piece[Len(piece)] = ">"

RECURSIVE JoinPieces(_, _)
JoinPieces(toks, v) ==
    IF toks = << >> THEN << >>
    ELSE LET tok == Head(toks)
             rest == JoinPieces(Tail(toks), v)
         IN  IF tok \in DOMAIN v /\ ~IsControl(v[tok]) THEN v[tok] \o rest
             ELSE rest

\* length of the run of white space a text starts with
RECURSIVE SpaceRun(_)
SpaceRun(t) ==
    IF t # << >> /\ IsSpace(Head(t)) THEN 1 + SpaceRun(Tail(t)) ELSE 0

\* the regexp ^\s+|\s+$|\s{2,} with every match replaced by one space;
\* atStart: t starts at the beginning of the text
RECURSIVE ReplaceRuns(_, _)
ReplaceRuns(t, atStart) ==
    IF t = << >> THEN << >>
    ELSE LET k == SpaceRun(t)
             rest == SubSeq(t, k + 1, Len(t))
         IN  IF k = 0 THEN << Head(t) >> \o ReplaceRuns(Tail(t), FALSE)
             ELSE IF atStart \/ rest = << >> \/ k >= 2
                  THEN << " " >> \o ReplaceRuns(rest, FALSE)
                  ELSE << Head(t) >> \o ReplaceRuns(rest, FALSE)

\* faulty variant: the text is left as it was joined
CollapseSpaces_None(t) == t

CollapseSpaces(t) == ReplaceRuns(t, TRUE)

RECURSIVE TrimLeft(_)
TrimLeft(t) == IF t # << >> /\ IsSpace(Head(t)) THEN TrimLeft(Tail(t)) ELSE t

RECURSIVE TrimRight(_)
TrimRight(t) ==
    IF t # << >> /\ IsSpace(t[Len(t)])
    THEN TrimRight(SubSeq(t, 1, Len(t) - 1))
    ELSE t

TrimSpace(t) == TrimRight(TrimLeft(t))

TokensToText(toks, v) == TrimSpace(CollapseSpaces(JoinPieces(toks, v)))

-----------------------------------------------------------------------------
(* loadVocab.  A vocab file is a sequence of lines, a line a sequence of   *)
(* code points, each written as a string; Marker is U+2581.                *)

Marker == "U+2581"
Digits == << "0", "1", "2", "3", "4", "5", "6", "7", "8", "9" >>
IsDigit(c) == \E d \in DOMAIN Digits : Digits[d] = c
DigitVal(c) == (CHOOSE d \in DOMAIN Digits : Digits[d] = c) - 1

RECURSIVE DigitsVal(_, _)
DigitsVal(str, acc) ==
    IF str = << >> THEN acc
    ELSE DigitsVal(Tail(str), 10 * acc + DigitVal(Head(str)))

\* strconv.Atoi: an optional sign, then one or more decimal digits
Atoi(str) ==
    LET signed == str # << >> /\ Head(str) \in {"+", "-"}
        body   == IF signed THEN Tail(str) ELSE str
        ok     == body # << >> /\ \A i \in DOMAIN body : IsDigit(body[i])
    IN  IF ~ok THEN [ok |-> FALSE, n |-> 0]
        ELSE [ok |-> TRUE,
              n  |-> IF signed /\ Head(str) = "-" THEN -DigitsVal(body, 0)
                     ELSE DigitsVal(body, 0)]

\* strings.SplitN(line, " ", 2)
SplitN2(line) ==
    LET spaces == {i \in DOMAIN line : line[i] = " "}
    IN  IF spaces = {} THEN << line >>
        ELSE LET at == CHOOSE i \in spaces : \A j \in spaces : i <= j
             IN  << SubSeq(line, 1, at - 1), SubSeq(line, at + 1, Len(line)) >>

\* strings.ReplaceAll(token, "▁", " ")
ReplaceMarker(token) ==
    [i \in DOMAIN token |-> IF token[i] = Marker THEN " " ELSE token[i]]

BlkPiece == << "<", "b", "l", "k", ">" >>

\* blankIdx as NewTranscriber sets it before loadVocab
DefaultBlankIdx == 8192

\* one iteration of the scanner loop
LoadLine(st, line) ==
    LET parts == SplitN2(line)
    IN  IF Len(parts) # 2 THEN st
        ELSE LET id == Atoi(parts[2])
                 token == ReplaceMarker(parts[1])
             IN  IF ~id.ok THEN st
                 ELSE [vocab    |-> (id.n :> token) @@ st.vocab,
                       blankIdx |-> IF token = BlkPiece THEN id.n
                                    ELSE st.blankIdx]

RECURSIVE LoadLines(_, _)
LoadLines(st, lines) ==
    IF lines = << >> THEN st
    ELSE LoadLines(LoadLine(st, Head(lines)), Tail(lines))

\* t.loadVocab(path) on a file with these lines: t.vocab, t.vocabSize,
\* t.blankIdx afterwards
LoadVocab(file, blank0) ==
    LET st == LoadLines([vocab |-> << >>, blankIdx |-> blank0], file)
    IN  [vocab |-> st.vocab, vocabSize |-> Cardinality(DOMAIN st.vocab),
         blankIdx |-> st.blankIdx]

-----------------------------------------------------------------------------
(* Runtime objects.                                                        *)

EncObjects == << "inputTensor", "lengthTensor", "outputTensor",
                 "outLenTensor", "encoderSession" >>

DecTensors == << "encOutTensor", "targetsTensor", "targetLenTensor",
                 "state1Tensor", "state2Tensor", "decOutputTensor",
                 "outState1Tensor", "outState2Tensor" >>

Sessions == {"encoderSession", "decoderSession"}

Objects == {EncObjects[i] : i \in DOMAIN EncObjects}
           \cup {DecTensors[i] : i \in DOMAIN DecTensors}
           \cup {"decoderSession"}

Tensors == Objects \ Sessions

NoObjects == [o \in Objects |-> 0]

LiveCount == live["inputTensor"] + live["lengthTensor"] + live["outputTensor"]
             + live["outLenTensor"] + live["encOutTensor"]
             + live["targetsTensor"] + live["targetLenTensor"]
             + live["state1Tensor"] + live["state2Tensor"]
             + live["decOutputTensor"] + live["outState1Tensor"]
             + live["outState2Tensor"]

\* a successful NewTensor / NewEmptyTensor / NewAdvancedSession
Created(name) == live' = [live EXCEPT ![name] = @ + 1]

\* x.Destroy()
Destroyed(name) ==
    /\ live' = [live EXCEPT ![name] = IF @ > 0 THEN @ - 1 ELSE 0]
    /\ dupDestroy' = (dupDestroy \/ live[name] = 0)

-----------------------------------------------------------------------------
(* Transcriber.Transcribe up to the call of runInference.                  *)

NoResult == [kind |-> "none"]
NoCall == [fn |-> "none"]
TextResult(t) == [kind |-> "ok", text |-> t]
ErrResult(wrap, e) == [kind |-> "err", text |-> << >>, wrap |-> wrap, err |-> e]

\* the values the locals of tdtDecode start with
DecInit ==
    /\ timestep' = 0
    /\ emittedTokens' = 0
    /\ prevToken' = blankIdx
    /\ tokens' = << >>
    /\ state1' = 0
    /\ state2' = 0
    /\ created' = 0
    /\ decToken' = -1
    /\ decStep' = -1
    /\ iters' = 0
    /\ stall' = 0

\* Transcribe(audioData, format, _): entry and the call of loadAudio
Transcribe(d, f) ==
    /\ transcribers > 0
    /\ audioData' = d
    /\ format' = f
    /\ parsed' = GoesToParseWAV(f)
    /\ LET r == LoadAudio(d, f)
       IN  /\ waveformLen' = IF r.kind = "ok" THEN r.n ELSE -1
           /\ result' = IF r.kind = "err"
                        THEN ErrResult("failed to load audio", r.err)
                        ELSE IF r.kind = "panic" THEN Panic ELSE NoResult
           /\ pc' = IF r.kind = "ok" THEN "checkLength"
                    ELSE IF r.kind = "panic" THEN "panicked" ELSE "returned"
    /\ numFrames' = 0
    /\ inferenceRan' = FALSE
    /\ encodedLen' = 0
    /\ DecInit
    /\ UNCHANGED << live, dupDestroy >>
    /\ defers' = << >>
    /\ cleanup' = << >>
    /\ rtErr' = "nil"
    /\ UNCHANGED << objVars, envInit, nInit, nDestroyEnv, transcribers,
                    fnVars, concVars >>

\* faulty variant: the threshold is the analysis window instead of 100 ms
TooShort_Win(n) == n < WinLength

TooShort(n) == n < MinSamples

\* if len(waveform) < 1600 { return "", nil }
T_CheckLength ==
    /\ pc = "checkLength"
    /\ IF TooShort(waveformLen)
       THEN /\ result' = TextResult(<< >>)
            /\ pc' = "returned"
       ELSE /\ result' = result
            /\ pc' = "extract"
    /\ UNCHANGED << audioData, format, parsed, waveformLen, numFrames,
                    inferenceRan, encodedLen, decVars, live, dupDestroy,
                    defers, cleanup, rtErr, objVars, procVars, fnVars, concVars >>

\* features := t.mel.Extract(waveform); the call of runInference
T_Extract ==
    /\ pc = "extract"
    /\ numFrames' = ExtractFrames(waveformLen)
    /\ IF numFrames' = 0
       THEN /\ result' = ErrResult("", ErrNoFeatures)
            /\ pc' = "returned"
            /\ inferenceRan' = FALSE
       ELSE /\ result' = result
            /\ pc' = "RI_new"
            /\ inferenceRan' = TRUE
    /\ UNCHANGED << audioData, format, parsed, waveformLen, encodedLen,
                    decVars, live, dupDestroy, defers, cleanup, rtErr,
                    objVars, procVars, fnVars, concVars >>

-----------------------------------------------------------------------------
(* runInference.  Every tensor and the encoder session is released by a    *)
(* deferred Destroy; the deferred calls run last-in first-out on return.   *)

\* ort.NewTensor x2, ort.NewEmptyTensor x2, ort.NewAdvancedSession, in order
RI_New ==
    /\ pc = "RI_new"
    /\ LET name == EncObjects[Len(defers) + 1]
       IN  \/ /\ envInit
              /\ Created(name)
              /\ defers' = << name >> \o defers
              /\ pc' = IF Len(defers') = Len(EncObjects) THEN "RI_run"
                       ELSE "RI_new"
              /\ rtErr' = rtErr
           \/ /\ rtErr' = ErrRuntime
              /\ pc' = "RI_return"
              /\ UNCHANGED << live, defers >>
    /\ UNCHANGED << audioData, format, parsed, waveformLen, numFrames,
                    inferenceRan, encodedLen, decVars, dupDestroy, cleanup,
                    result, objVars, procVars, fnVars, concVars >>

\* encoderSession.Run(), then actualEncodedLen := outLenTensor.GetData()[0]
\* and the call of tdtDecode
RI_Run(maxLen) ==
    /\ pc = "RI_run"
    /\ \/ /\ envInit
          /\ \E n \in 0 .. maxLen : encodedLen' = n
          /\ pc' = "TD_loop"
          /\ rtErr' = rtErr
       \/ /\ rtErr' = ErrRuntime
          /\ pc' = "RI_return"
          /\ encodedLen' = encodedLen
    /\ UNCHANGED << audioData, format, parsed, waveformLen, numFrames,
                    inferenceRan, decVars, live, dupDestroy, defers, cleanup,
                    result, objVars, procVars, fnVars, concVars >>

\* the deferred Destroy calls of runInference, one per step
RI_Return ==
    /\ pc = "RI_return"
    /\ IF defers # << >>
       THEN /\ Destroyed(Head(defers))
            /\ defers' = Tail(defers)
            /\ pc' = pc
       ELSE /\ pc' = "T_return"
            /\ UNCHANGED << live, dupDestroy, defers >>
    /\ UNCHANGED << audioData, format, parsed, waveformLen, numFrames,
                    inferenceRan, encodedLen, decVars, cleanup, rtErr,
                    result, objVars, procVars, fnVars, concVars >>

\* Transcribe after runInference: wrap the error or detokenize
T_Return ==
    /\ pc = "T_return"
    /\ result' = IF rtErr # "nil" THEN ErrResult("inference failed", rtErr)
                 ELSE TextResult(TokensToText(tokens, vocab))
    /\ pc' = "returned"
    /\ UNCHANGED << audioData, format, parsed, waveformLen, numFrames,
                    inferenceRan, encodedLen, decVars, live, dupDestroy,
                    defers, cleanup, rtErr, objVars, procVars, fnVars, concVars >>

-----------------------------------------------------------------------------
(* tdtDecode.                                                              *)

\* for timestep < encodedLen
LoopContinues(t, n) == t < n

TD_Loop ==
    /\ pc = "TD_loop"
    /\ pc' = IF LoopContinues(timestep, encodedLen) THEN "TD_new"
             ELSE "RI_return"
    /\ created' = 0
    /\ UNCHANGED << audioData, format, parsed, waveformLen, numFrames,
                    inferenceRan, encodedLen, timestep, emittedTokens,
                    prevToken, tokens, state1, state2, decToken, decStep,
                    iters, stall, live, dupDestroy, defers, cleanup, rtErr,
                    result, objVars, procVars, fnVars, concVars >>

\* faulty variant: the error path forgets the tensor created last
CreateFailCleanup_Short(k) == SubSeq(DecTensors, 1, k - 2)

\* the Destroy calls tdtDecode makes when the k-th tensor cannot be created
CreateFailCleanup(k) == SubSeq(DecTensors, 1, k - 1)

\* the Destroy calls when NewAdvancedSession fails
SessionFailCleanup == DecTensors

\* the Destroy calls when decoderSession.Run fails
RunFailCleanup == << "decoderSession" >> \o DecTensors

\* the Destroy calls at the end of an iteration
IterationCleanup == << "decoderSession" >> \o DecTensors

\* return nil, err after the Destroy calls in `ds`
TD_Fail(ds) ==
    /\ cleanup' = ds
    /\ rtErr' = ErrRuntime
    /\ pc' = "TD_fail"
    /\ DecInit

\* the eight tensors of one iteration, one creation per step
TD_New ==
    /\ pc = "TD_new"
    /\ \/ /\ envInit
          /\ Created(DecTensors[created + 1])
          /\ created' = created + 1
          /\ pc' = IF created' = Len(DecTensors) THEN "TD_session" ELSE pc
          /\ UNCHANGED << timestep, emittedTokens, prevToken, tokens, state1,
                          state2, decToken, decStep, iters, stall, cleanup,
                          rtErr >>
       \/ /\ TD_Fail(CreateFailCleanup(created + 1))
          /\ live' = live
    /\ UNCHANGED << audioData, format, parsed, waveformLen, numFrames,
                    inferenceRan, encodedLen, dupDestroy, defers, result,
                    objVars, procVars, fnVars, concVars >>

\* ort.NewAdvancedSession for the decoder
TD_Session ==
    /\ pc = "TD_session"
    /\ \/ /\ envInit
          /\ Created("decoderSession")
          /\ pc' = "TD_run"
          /\ UNCHANGED << decVars, cleanup, rtErr >>
       \/ /\ TD_Fail(SessionFailCleanup)
          /\ live' = live
    /\ UNCHANGED << audioData, format, parsed, waveformLen, numFrames,
                    inferenceRan, encodedLen, dupDestroy, defers, result,
                    objVars, procVars, fnVars, concVars >>

\* faulty variant: the decoder is always fed the blank as previous token
PrevAfter_Blank(tok) == blankIdx

\* prevToken = token
PrevAfter(tok) == tok

\* faulty variant: the blank is treated as a token like any other
Emits_Always(tok) == TRUE

\* if token != t.blankIdx
Emits(tok) == tok # blankIdx

\* faulty variant: the counter is not incremented
EmittedAfter_Keep(tok, em) == em

\* if token != t.blankIdx { ... emittedTokens++ }
EmittedAfter(tok, em) == IF tok # blankIdx THEN em + 1 ELSE em

\* faulty variant: the ceiling compared with > instead of >=
ForcedAdvance_Gt(tok, em) == tok = blankIdx \/ em > MaxTokensPerStep

\* faulty variant: no ceiling on the tokens emitted at one time step
ForcedAdvance_BlankOnly(tok, em) == tok = blankIdx

\* else if token == t.blankIdx || emittedTokens >= t.maxTokensPerStep
ForcedAdvance(tok, em) == tok = blankIdx \/ em >= MaxTokensPerStep

\* the iteration moves the time pointer
Advances(tok, step, em) == step > 0 \/ ForcedAdvance(tok, em)

\* faulty variant: a positive duration moves the time pointer by one frame
TimeAfter_One(tok, step, em, t) ==
    IF Advances(tok, step, em) THEN t + 1 ELSE t

\* timestep after the duration rule
TimeAfter(tok, step, em, t) ==
    IF step > 0 THEN t + step
    ELSE IF ForcedAdvance(tok, em) THEN t + 1 ELSE t

\* decoderSession.Run(); on success the argmax of the token logits (tok)
\* and of the duration logits (step), the state update and the duration rule
TD_Run ==
    /\ pc = "TD_run"
    /\ \/ /\ envInit
          /\ \E tok \in 0 .. vocabSize - 1, step \in 0 .. NumDurationClasses - 1 :
                LET em == EmittedAfter(tok, emittedTokens)
                IN  /\ decToken' = tok
                    /\ decStep' = step
                    /\ IF Emits(tok)
                       THEN /\ state1' = iters + 1
                            /\ state2' = iters + 1
                            /\ tokens' = Append(tokens, tok)
                            /\ prevToken' = PrevAfter(tok)
                       ELSE UNCHANGED << state1, state2, tokens, prevToken >>
                    /\ timestep' = TimeAfter(tok, step, em, timestep)
                    /\ emittedTokens' = IF Advances(tok, step, em) THEN 0 ELSE em
                    /\ stall' = IF timestep' > timestep THEN 0 ELSE stall + 1
          /\ iters' = iters + 1
          /\ cleanup' = IterationCleanup
          /\ pc' = "TD_cleanup"
          /\ UNCHANGED << created, rtErr >>
       \/ /\ TD_Fail(RunFailCleanup)
    /\ UNCHANGED << audioData, format, parsed, waveformLen, numFrames,
                    inferenceRan, encodedLen, live, dupDestroy, defers, result,
                    objVars, procVars, fnVars, concVars >>

\* faulty variant: a failed iteration is tried again
AfterCleanup_Retry(p) == "TD_loop"

\* where tdtDecode goes once its Destroy calls are made: the loop condition
\* after an iteration, the return to runInference after a failure
AfterCleanup(p) == IF p = "TD_cleanup" THEN "TD_loop" ELSE "RI_return"

\* the pending Destroy calls of tdtDecode, one per step; then the next
\* iteration or the return of the error
TD_Cleanup ==
    /\ pc \in {"TD_cleanup", "TD_fail"}
    /\ IF cleanup # << >>
       THEN /\ Destroyed(Head(cleanup))
            /\ cleanup' = Tail(cleanup)
            /\ pc' = pc
       ELSE /\ pc' = AfterCleanup(pc)
            /\ UNCHANGED << live, dupDestroy, cleanup >>
    /\ UNCHANGED << audioData, format, parsed, waveformLen, numFrames,
                    inferenceRan, encodedLen, decVars, defers, rtErr, result,
                    objVars, procVars, fnVars, concVars >>

-----------------------------------------------------------------------------
(* NewTranscriber and Close.                                               *)

\* what NewTranscriber finds on disk
NewOutcomes == {"noConfig", "badVocab", "noLib", "noEncoder", "noDecoder", "ok"}

\* the vocabulary after loadVocab: id -> piece, U+2581 already a space
SmallVocab == [i \in 0 .. 1 |-> IF i = 0 THEN << " ", "a" >>
                                 ELSE BlkPiece]

\* NewTranscriber reaches ort.InitializeEnvironment
ReachesInit(fs) == fs \notin {"noConfig", "badVocab", "noLib"}

\* NewTranscriber(modelsDir) with the files as `fs` says; initOk: the
\* runtime accepts InitializeEnvironment
NewTranscriber(fs, initOk) ==
    LET inits == ReachesInit(fs) /\ initOk /\ ~envInit
        returns == inits /\ fs = "ok"
    IN  /\ envInit' = (envInit \/ inits)
        /\ nInit' = IF inits THEN nInit + 1 ELSE nInit
        /\ transcribers' = IF returns THEN transcribers + 1 ELSE transcribers
        /\ IF returns
           THEN /\ vocab' = SmallVocab
                /\ vocabSize' = 2
                /\ blankIdx' = 1
           ELSE UNCHANGED objVars
        /\ nDestroyEnv' = nDestroyEnv

\* Transcriber.Close: ort.DestroyEnvironment()
Close ==
    /\ transcribers > 0
    /\ envInit' = FALSE
    /\ nDestroyEnv' = IF envInit THEN nDestroyEnv + 1 ELSE nDestroyEnv
    /\ UNCHANGED << nInit, transcribers, objVars >>

-----------------------------------------------------------------------------
(* The request specification: one Transcriber, constructed, takes one      *)
(* request.                                                                *)

Requests ==
    (Payloads \X {".wav"})
    \cup (LongPayloads \X (Formats \ {".wav"}))

-----------------------------------------------------------------------------
(* Requests served at the same time.  net/http runs every request in a     *)
(* goroutine of its own and all of them call Transcribe on the one         *)
(* Transcriber of the server.  A runtime object is named by the request    *)
(* that created it and the variable it was created for.                    *)

\* the requests in flight
Threads == {1, 2}

\* most tdtDecode iterations of one of these requests
MaxConcSteps == 2

\* the objects of one tdtDecode iteration, in the order of creation
DecObjects == DecTensors \o << "decoderSession" >>

InitConc ==
    /\ cpc = [th \in Threads |-> "idle"]
    /\ cidx = [th \in Threads |-> 0]
    /\ csteps = [th \in Threads |-> 0]
    /\ locals = [th \in Threads |-> {}]
    /\ fields = {}
    /\ fieldWrites = 0
    /\ foreign = FALSE

InitRequest ==
    /\ pc = "idle"
    /\ audioData = Wav(0, << >>, Pcm16Mono)
    /\ format = ""
    /\ parsed = FALSE
    /\ waveformLen = -1
    /\ numFrames = 0
    /\ inferenceRan = FALSE
    /\ encodedLen = 0
    /\ timestep = 0
    /\ emittedTokens = 0
    /\ prevToken = blankIdx
    /\ tokens = << >>
    /\ state1 = 0
    /\ state2 = 0
    /\ created = 0
    /\ decToken = -1
    /\ decStep = -1
    /\ iters = 0
    /\ stall = 0
    /\ live = NoObjects
    /\ dupDestroy = FALSE
    /\ defers = << >>
    /\ cleanup = << >>
    /\ rtErr = "nil"
    /\ result = NoResult
    /\ fnCall = NoCall
    /\ InitConc

Init ==
    /\ vocab = SmallVocab
    /\ vocabSize = 2
    /\ blankIdx = 1
    /\ envInit = TRUE
    /\ nInit = 1
    /\ nDestroyEnv = 0
    /\ transcribers = 1
    /\ pcMain = "serving"
    /\ calls = 0
    /\ InitRequest

\* the steps of a request after Transcribe's entry; the runtime reports
\* encoder lengths up to maxLen
Step(maxLen) ==
    \/ T_CheckLength
    \/ T_Extract
    \/ RI_New
    \/ RI_Run(maxLen)
    \/ RI_Return
    \/ T_Return
    \/ TD_Loop
    \/ TD_New
    \/ TD_Session
    \/ TD_Run
    \/ TD_Cleanup

\* a caller hands one request to the idle Transcriber
Call ==
    /\ pc = "idle"
    /\ \E r \in Requests : Transcribe(r[1], r[2])
    /\ UNCHANGED << pcMain, calls >>

Next ==
    \/ Call
    \/ Step(MaxEncLen)

Spec == Init /\ [][Next]_vars

-----------------------------------------------------------------------------
(* The process specification: main, from start to exit.                    *)

\* the 44-byte file: RIFF header, fmt chunk of 16 bytes, empty data chunk
Wav44 == Wav(MinWavLen, << Chunk("fmt ", 16), Chunk("data", 0) >>, Pcm16Mono)

\* the 16-bit mono 16 kHz file of exactly 1600 samples
Wav1600 ==
    Wav(MinWavLen + 2 * MinSamples,
        << Chunk("fmt ", 16), Chunk("data", 2 * MinSamples) >>, Pcm16Mono)

LifeRequests == {<< Wav44, ".wav" >>, << Wav1600, ".wav" >>}

\* encoder lengths the runtime reports in the lifecycle specifications
LifeEncLen == 1

InitProcess(start) ==
    /\ vocab = << >>
    /\ vocabSize = 0
    /\ blankIdx = 0
    /\ envInit = FALSE
    /\ nInit = 0
    /\ nDestroyEnv = 0
    /\ transcribers = 0
    /\ pcMain = start
    /\ calls = 0
    /\ InitRequest

\* main: srv, err := server.New(cfg); if err != nil { log.Fatalf(...) }
MainNew ==
    /\ pcMain = "start"
    /\ \E fs \in NewOutcomes, initOk \in BOOLEAN : NewTranscriber(fs, initOk)
    /\ pcMain' = IF transcribers' > transcribers THEN "serving" ELSE "fatalNew"
    /\ UNCHANGED << reqVars, calls, fnVars, concVars >>

\* handleTranscription: s.transcriber.Transcribe(audioData, ext, language)
Serve ==
    /\ pcMain = "serving"
    /\ pc \in {"idle", "returned", "panicked"}
    /\ \E r \in LifeRequests : Transcribe(r[1], r[2])
    /\ UNCHANGED << pcMain, calls >>

\* the handler's steps while the process lives
Handle ==
    /\ pcMain = "serving"
    /\ Step(LifeEncLen)

\* main: defer srv.Close(); log.Fatal(srv.Run()).  ListenAndServe returns
\* an error; log.Fatal prints it and calls os.Exit(1), which ends the
\* process without running deferred calls.
MainFatal ==
    /\ pcMain = "serving"
    /\ pcMain' = "exited"
    /\ UNCHANGED << reqVars, objVars, envInit, nInit, nDestroyEnv,
                    transcribers, calls, fnVars, concVars >>

InitMain == InitProcess("start")

NextMain == MainNew \/ Serve \/ Handle \/ MainFatal

SpecMain == InitMain /\ [][NextMain]_vars

-----------------------------------------------------------------------------
(* The request specification with a vocabulary that has a control piece    *)
(* besides the blank.                                                      *)

\* vocab.txt with a plain piece, a control piece and the blank
CtlVocabFile ==
    << << "a", " ", "0" >>,
       << "<", "u", "n", "k", ">", " ", "1" >>,
       BlkPiece \o << " ", "2" >> >>

\* the state after NewTranscriber has loaded that file
InitCtl ==
    LET v == LoadVocab(CtlVocabFile, DefaultBlankIdx)
    IN  /\ vocab = v.vocab
        /\ vocabSize = v.vocabSize
        /\ blankIdx = v.blankIdx
        /\ envInit = TRUE
        /\ nInit = 1
        /\ nDestroyEnv = 0
        /\ transcribers = 1
        /\ pcMain = "serving"
        /\ calls = 0
        /\ InitRequest

SpecCtl == InitCtl /\ [][Serve \/ Handle]_vars

-----------------------------------------------------------------------------
(* The API specification: a client calls NewTranscriber, Transcribe and    *)
(* Close in any order, one call after the other.                           *)

Quiet == pc \in {"idle", "returned", "panicked"}

ApiNew ==
    /\ pcMain = "api" /\ Quiet /\ calls < MaxCalls
    /\ \E fs \in NewOutcomes, initOk \in BOOLEAN : NewTranscriber(fs, initOk)
    /\ calls' = calls + 1
    /\ UNCHANGED << reqVars, pcMain, fnVars, concVars >>

ApiClose ==
    /\ pcMain = "api" /\ Quiet /\ calls < MaxCalls
    /\ Close
    /\ calls' = calls + 1
    /\ UNCHANGED << reqVars, pcMain, fnVars, concVars >>

ApiTranscribe ==
    /\ pcMain = "api" /\ Quiet /\ calls < MaxCalls
    /\ \E r \in LifeRequests : Transcribe(r[1], r[2])
    /\ calls' = calls + 1
    /\ pcMain' = pcMain

ApiStep ==
    /\ pcMain = "api"
    /\ Step(LifeEncLen)

InitApi == InitProcess("api")

NextApi == ApiNew \/ ApiClose \/ ApiTranscribe \/ ApiStep

SpecApi == InitApi /\ [][NextApi]_vars

-----------------------------------------------------------------------------
(* The function specification: one function of the package is called on    *)
(* its own, once, on arguments drawn from bounded sets.                    *)

\* longest sample buffer handed to resample
MaxResampleIn == 40

\* source rates: the common ones and one that does not divide 16000
SourceRates == {35, 8000, 11025, 16000, 32000, 44100, 48000}

\* resample(samples, srcRate, 16000)
CallResample ==
    /\ fnCall = NoCall
    /\ \E n \in 0 .. MaxResampleIn, rs \in SourceRates :
          fnCall' = [fn |-> "resample", n |-> n, srcRate |-> rs,
                     ret |-> Resample(n, rs, TargetRate)]
    /\ UNCHANGED << reqVars, objVars, procVars, concVars >>

\* longest sample buffer handed to Extract
MaxExtractIn == 900

\* features_size of config.json; 128 is the default
DefaultFeaturesSize == 128
FeaturesSizes == {80, DefaultFeaturesSize}

\* t.mel.Extract(samples), t.mel built by NewMelFilterbank(nMels, 16000)
CallExtract ==
    /\ fnCall = NoCall
    /\ \E n \in 0 .. MaxExtractIn, nMels \in FeaturesSizes :
          fnCall' = [fn |-> "extract", n |-> n, nMels |-> nMels,
                     ret |-> Extract(n, nMels)]
    /\ UNCHANGED << reqVars, objVars, procVars, concVars >>

\* most lines of a vocab file
MaxLines == 3

\* lines of a vocab file: well-formed ones, two of them with the same id,
\* a control piece, pieces with the marker, and malformed ones
VocabLines ==
    { << "a", " ", "0" >>,
      << "c", " ", "0" >>,
      << Marker, "b", " ", "1" >>,
      BlkPiece \o << " ", "2" >>,
      << "<", Marker, "u", ">", " ", "3" >>,
      << Marker, "<", "u", ">", " ", "3" >>,
      << "a" >>,
      << "a", " ", "x" >>,
      << "a", " ", " ", "1" >>,
      << >> }

VocabFiles == SeqsUpTo(VocabLines, MaxLines)

\* t.loadVocab(path)
CallLoadVocab ==
    /\ fnCall = NoCall
    /\ \E file \in VocabFiles :
          fnCall' = [fn |-> "loadVocab", file |-> file,
                     ret |-> LoadVocab(file, DefaultBlankIdx)]
    /\ UNCHANGED << reqVars, objVars, procVars, concVars >>

\* most tokens handed to tokensToText
MaxTokens == 3

\* a vocab file with one piece of each kind: plain, with a leading
\* marker, the blank, control pieces with a marker outside and inside the
\* brackets, the marker alone, a tab
FullVocabFile ==
    << << "a", " ", "0" >>,
       << Marker, "b", " ", "1" >>,
       BlkPiece \o << " ", "2" >>,
       << Marker, "<", "u", ">", " ", "3" >>,
       << "<", Marker, "v", ">", " ", "4" >>,
       << Marker, " ", "5" >>,
       << Tab, " ", "6" >> >>

\* the file behind SmallVocab
SmallVocabFile == << << Marker, "a", " ", "0" >>, BlkPiece \o << " ", "1" >> >>

DetokFiles == {FullVocabFile, SmallVocabFile, << >>}

\* token ids: those of FullVocabFile and one that no file defines
TokenIds == 0 .. Len(FullVocabFile)

\* t.tokensToText(tokens) after t.loadVocab(path)
CallTokensToText ==
    /\ fnCall = NoCall
    /\ \E file \in DetokFiles, toks \in SeqsUpTo(TokenIds, MaxTokens) :
          fnCall' = [fn |-> "tokensToText", file |-> file, tokens |-> toks,
                     ret |-> TokensToText(
                                toks, LoadVocab(file, DefaultBlankIdx).vocab)]
    /\ UNCHANGED << reqVars, objVars, procVars, concVars >>

\* the locations NewTranscriber tries when ONNXRUNTIME_LIB is empty
CommonPaths ==
    << "/usr/lib/libonnxruntime.so",
       "/usr/lib/x86_64-linux-gnu/libonnxruntime.so",
       "/usr/local/lib/libonnxruntime.so",
       "/opt/onnxruntime/lib/libonnxruntime.so",
       "./libonnxruntime.so",
       "libonnxruntime.so.1.17.0" >>

\* the first path of paths that os.Stat finds, "" if there is none
RECURSIVE FirstExisting(_, _)
FirstExisting(paths, exists) ==
    IF paths = << >> THEN ""
    ELSE IF Head(paths) \in exists THEN Head(paths)
    ELSE FirstExisting(Tail(paths), exists)

\* the part of NewTranscriber that initializes the runtime: env is the
\* value of ONNXRUNTIME_LIB ("" when unset), exists the files present,
\* initOk whether the runtime accepts InitializeEnvironment
InitRuntime(env, exists, initOk) ==
    LET libPath == IF env = "" THEN FirstExisting(CommonPaths, exists)
                   ELSE env
    IN  IF libPath # ""
        THEN [libPath |-> libPath, initCalled |-> TRUE,
              err |-> IF initOk THEN "nil"
                      ELSE "failed to initialize ONNX Runtime"]
        ELSE [libPath |-> "", initCalled |-> FALSE,
              err |-> "ONNX Runtime library not found"]

\* NewTranscriber up to the initialization of the runtime, with the
\* common locations and one more file present or not
CallInitRuntime ==
    /\ fnCall = NoCall
    /\ \E env \in {"", "/opt/custom/libonnxruntime.so"},
          exists \in SUBSET ({CommonPaths[i] : i \in DOMAIN CommonPaths}
                             \cup {"/opt/custom/libonnxruntime.so"}),
          initOk \in BOOLEAN :
          fnCall' = [fn |-> "initRuntime", env |-> env, exists |-> exists,
                     initOk |-> initOk,
                     ret |-> InitRuntime(env, exists, initOk)]
    /\ UNCHANGED << reqVars, objVars, procVars, concVars >>

\* subsampling_factor of config.json when it is absent or 0
DefaultSubsampling == 8

\* most mel frames handed to runInference here
MaxSliceFrames == 17

\* encodedLen := (numFrames-1)/int64(t.config.SubsamplingFactor) + 1, the
\* time length the output tensor is allocated with
AllocatedLen(nFrames, subsampling) == GoDiv(nFrames - 1, subsampling) + 1

\* outputTensor.GetData() for the shape [1, encoderDim, len]: the flat
\* row-major data, each element standing for its own position (d, t)
EncoderOut(encoderDim, len) ==
    [k \in 1 .. encoderDim * len |-> << (k - 1) \div len, (k - 1) % len >>]

\* encOutSlice of a tdtDecode iteration, indexed from 0 as in the code; an
\* element left at its zero value is "zero"
EncOutSlice(encoderOut, encoderDim, encLen, t) ==
    [d \in 0 .. encoderDim - 1 |->
        LET idx == d * encLen + t
        IN  IF idx < Len(encoderOut) THEN encoderOut[idx + 1] ELSE "zero"]

\* the slice of one iteration of tdtDecode(encoderOut, encoderDim,
\* actualEncodedLen) as runInference calls it, at time pointer t inside the
\* loop; the runtime reports a length up to the allocated one
CallEncOutSlice ==
    /\ fnCall = NoCall
    /\ \E nFrames \in 1 .. MaxSliceFrames, encoderDim \in {2, 3} :
          LET len == AllocatedLen(nFrames, DefaultSubsampling)
          IN  \E actual \in 1 .. len :
                 \E t \in {t \in 0 .. len : LoopContinues(t, actual)} :
                    fnCall' = [fn |-> "encOutSlice", numFrames |-> nFrames,
                               encoderDim |-> encoderDim, allocated |-> len,
                               encodedLen |-> actual, timestep |-> t,
                               ret |-> EncOutSlice(
                                          EncoderOut(encoderDim, len),
                                          encoderDim, actual, t)]
    /\ UNCHANGED << reqVars, objVars, procVars, concVars >>

\* longest data chunk handed to convertToFloat32, in bytes
MaxDataLen == 4

\* byte values: the ends and the middle of the range, and the top byte
\* of the float 2.0
ByteVals == {0, 64, 127, 128, 255}

\* convertToFloat32(data, audioFormat, numChannels, bitsPerSample)
CallConvertToFloat32 ==
    /\ fnCall = NoCall
    /\ \E data \in SeqsUpTo(ByteVals, MaxDataLen), af \in {1, 3},
          nc \in {1, 2}, bits \in {8, 16, 24, 32} :
          fnCall' = [fn |-> "convertToFloat32", data |-> data,
                     audioFormat |-> af, numChannels |-> nc,
                     bitsPerSample |-> bits,
                     res |-> ConvertToFloat32(Len(data), af, nc, bits),
                     ret |-> Samples(data, af, nc, bits)]
    /\ UNCHANGED << reqVars, objVars, procVars, concVars >>

InitFn == Init

NextFn ==
    \/ CallResample
    \/ CallExtract
    \/ CallLoadVocab
    \/ CallTokensToText
    \/ CallEncOutSlice
    \/ CallInitRuntime

SpecFn == InitFn /\ [][NextFn]_vars

\* the same for convertToFloat32, whose arguments are many
SpecSamples == InitFn /\ [][CallConvertToFloat32]_vars

-----------------------------------------------------------------------------
(* Transcribe, runInference and tdtDecode of concurrent requests, as far   *)
(* as runtime objects and the Transcriber's fields go.                     *)

\* faulty variant: the new object is kept in a field of the Transcriber
Holder_Field(th) == 0

\* where `x, err := ort.New...` of request th puts the new object: into a
\* local variable of that call
Holder(th) == th

\* the objects request th can reach: through its locals and through the
\* Transcriber it shares
Reach(th) == locals[th] \cup fields

\* a successful ort.New... of request th for the variable name
CNew(th, name) ==
    IF Holder(th) = th
    THEN /\ locals' = [locals EXCEPT ![th] = @ \cup {<< th, name >>}]
         /\ UNCHANGED << fields, fieldWrites >>
    ELSE /\ fields' = fields \cup {<< th, name >>}
         /\ fieldWrites' = Min(fieldWrites + 1, 1)
         /\ UNCHANGED locals

\* request th calls Destroy on the objects it reaches whose variable is
\* among names
CDestroy(th, names) ==
    LET gone == {h \in Reach(th) : h[2] \in names}
    IN  /\ locals' = [t \in Threads |-> locals[t] \ gone]
        /\ fields' = fields \ gone
        /\ foreign' = (foreign \/ \E h \in gone : h[1] # th)

\* handleTranscription calls s.transcriber.Transcribe; loadAudio and
\* mel.Extract read the Transcriber and write none of its fields
C_Transcribe(th) ==
    /\ cpc[th] = "idle"
    /\ cpc' = [cpc EXCEPT ![th] = "RI_new"]
    /\ UNCHANGED << cidx, csteps, locals, fields, fieldWrites, foreign >>

\* the next ort.New... of runInference or of a tdtDecode iteration
C_New(th) ==
    /\ cpc[th] \in {"RI_new", "TD_new"}
    /\ LET objs == IF cpc[th] = "RI_new" THEN EncObjects ELSE DecObjects
           last == cidx[th] + 1 = Len(objs)
       IN  /\ CNew(th, objs[cidx[th] + 1])
           /\ cidx' = [cidx EXCEPT ![th] = IF last THEN 0 ELSE @ + 1]
           /\ cpc' = [cpc EXCEPT ![th] =
                         IF ~last THEN @
                         ELSE IF @ = "RI_new" THEN "RI_run" ELSE "TD_run"]
    /\ UNCHANGED << csteps, foreign >>

\* an ort.New... fails: the objects created so far are destroyed and the
\* error goes up to Transcribe
C_NewFails(th) ==
    /\ cpc[th] \in {"RI_new", "TD_new"}
    /\ CDestroy(th, Objects)
    /\ cidx' = [cidx EXCEPT ![th] = 0]
    /\ cpc' = [cpc EXCEPT ![th] = "returned"]
    /\ UNCHANGED << csteps, fieldWrites >>

\* session.Run of the encoder or of the decoder: it reads and writes the
\* tensors of the request
C_Run(th) ==
    /\ cpc[th] \in {"RI_run", "TD_run"}
    /\ foreign' = (foreign \/ \E h \in Reach(th) : h[1] # th)
    /\ cpc' = [cpc EXCEPT ![th] =
                  IF @ = "RI_run" THEN "TD_loop" ELSE "TD_cleanup"]
    /\ UNCHANGED << cidx, csteps, locals, fields, fieldWrites >>

\* for timestep < encodedLen: one more iteration, or the loop ends
C_Loop(th) ==
    /\ cpc[th] = "TD_loop"
    /\ \E more \in BOOLEAN :
          /\ more => csteps[th] < MaxConcSteps
          /\ cpc' = [cpc EXCEPT ![th] =
                        IF more THEN "TD_new" ELSE "RI_return"]
    /\ UNCHANGED << cidx, csteps, locals, fields, fieldWrites, foreign >>

\* the Destroy calls at the end of a tdtDecode iteration
C_Cleanup(th) ==
    /\ cpc[th] = "TD_cleanup"
    /\ CDestroy(th, {DecObjects[i] : i \in DOMAIN DecObjects})
    /\ csteps' = [csteps EXCEPT ![th] = @ + 1]
    /\ cpc' = [cpc EXCEPT ![th] = "TD_loop"]
    /\ UNCHANGED << cidx, fieldWrites >>

\* runInference returns: its deferred Destroy calls run
C_Return(th) ==
    /\ cpc[th] = "RI_return"
    /\ CDestroy(th, {EncObjects[i] : i \in DOMAIN EncObjects})
    /\ cpc' = [cpc EXCEPT ![th] = "returned"]
    /\ UNCHANGED << cidx, csteps, fieldWrites >>

NextConc ==
    \E th \in Threads :
       /\ \/ C_Transcribe(th)
          \/ C_New(th)
          \/ C_NewFails(th)
          \/ C_Run(th)
          \/ C_Loop(th)
          \/ C_Cleanup(th)
          \/ C_Return(th)
       /\ UNCHANGED << reqVars, objVars, procVars, fnVars >>

SpecConc == Init /\ [][NextConc]_vars

-----------------------------------------------------------------------------
(* Claims about the TDT loop.                                              *)

LoopPcs == {"TD_loop", "TD_new", "TD_session", "TD_run", "TD_cleanup"}

\* C1: when no runtime call fails, tdtDecode's loop runs at most
\* maxTokensPerStep * T'_actual iterations, and once that many iterations
\* are done the loop condition is false, so the loop exits.
C1_IterationBound ==
    /\ iters <= MaxTokensPerStep * encodedLen
    /\ (pc = "TD_loop" /\ iters = MaxTokensPerStep * encodedLen)
          => ~LoopContinues(timestep, encodedLen)

\* C1 witness: a request that returned a text after exactly
\* maxTokensPerStep * T'_actual iterations, with T'_actual at the bound.
C1_Witness ==
    /\ pc = "returned"
    /\ result.kind = "ok"
    /\ encodedLen = MaxEncLen
    /\ iters = MaxTokensPerStep * encodedLen

\* C2: inside the loop the time pointer never decreases, and no 11
\* consecutive iterations leave it unchanged.
C2_TimePointer ==
    /\ [](stall <= MaxTokensPerStep)
    /\ [][(pc \in LoopPcs /\ pc' \in LoopPcs) => timestep' >= timestep]_vars

\* C2 witness: the longest run of iterations that leave the time pointer
\* where it is, followed by nothing yet.
C2_Witness ==
    /\ pc = "TD_cleanup"
    /\ stall = MaxTokensPerStep - 1
    /\ timestep > 0

\* C3: when Transcribe returns, with a text or with an error, no tensor
\* is alive and no Destroy was called on a tensor that was not alive.
C3_NoLiveTensor ==
    pc = "returned" => (LiveCount = 0 /\ ~dupDestroy)

\* C3 witness: a request that failed inside the decoder loop (the encoder
\* had already reported a length) has returned its error.
C3_Witness ==
    /\ pc = "returned"
    /\ result.kind = "err"
    /\ result.err = ErrRuntime
    /\ encodedLen > 0

-----------------------------------------------------------------------------
(* Claims about the audio front end.                                       *)

\* Transcribe is over: it returned or it panicked
Done == pc \in {"returned", "panicked"}

\* C6: the 44-byte RIFF/WAVE payload with an empty data chunk, handed to
\* Transcribe as .wav, yields the empty text and no error.
C6_Empty44 ==
    (Done /\ audioData = Wav44 /\ format = ".wav")
        => result = TextResult(<< >>)

\* C7: whenever the decoded, resampled waveform has fewer than 1600
\* samples, Transcribe returns the empty text and no error.
C7_TooShort ==
    (pc = "returned" /\ waveformLen >= 0 /\ waveformLen < MinSamples)
        => result = TextResult(<< >>)

\* C7 witness: the 1599-sample 16-bit mono 16 kHz WAV has returned.
C7_Witness ==
    /\ pc = "returned"
    /\ waveformLen = MinSamples - 1
    /\ audioData.fmt = Pcm16Mono
    /\ format = ".wav"
    /\ result = TextResult(<< >>)

\* offset of the i-th chunk header of a payload
RECURSIVE ChunkOffset(_, _)
ChunkOffset(d, i) ==
    IF i = 1 THEN RiffHeaderLen
    ELSE LET c == d.chunks[i - 1]
         IN  ChunkOffset(d, i - 1) + ChunkHeaderLen + c.size
             + (IF c.size % 2 # 0 THEN 1 ELSE 0)

\* the chunks whose header lies inside the payload
ChunksInside(d) ==
    {i \in DOMAIN d.chunks : ChunkOffset(d, i) + ChunkHeaderLen <= d.len}

BadMagic(d) == d.riff # "RIFF" \/ d.wave # "WAVE"

\* a chunk whose declared body, or whose fmt fields, end after the payload
TruncatedChunk(d) ==
    \E i \in ChunksInside(d) :
        \/ ChunkOffset(d, i) + ChunkHeaderLen + d.chunks[i].size > d.len
        \/ d.chunks[i].id = "fmt " /\ ChunkOffset(d, i) + FmtReadEnd > d.len

NoDataChunk(d) == \A i \in ChunksInside(d) : d.chunks[i].id # "data"

NonConforming(d) ==
    d.len >= MinWavLen /\ (BadMagic(d) \/ TruncatedChunk(d) \/ NoDataChunk(d))

\* C8: for every payload that does not conform to the container (wrong
\* magic, truncated chunk, no data chunk) parseWAV returns an error value:
\* it neither returns samples nor aborts.
C8_Malformed ==
    (Done /\ parsed /\ NonConforming(audioData))
        => result.kind = "err"

\* the fmt fields name an encoding outside the supported set
UnsupportedFmt(f) ==
    \/ f.audioFormat \notin {1, 3}
    \/ f.audioFormat = 1 /\ f.bitsPerSample \notin {8, 16, 24, 32}
    \/ f.audioFormat = 3 /\ f.bitsPerSample # 32

\* a well-formed file whose data chunk the walk reaches
ReachesData(d) ==
    /\ ~BadMagic(d)
    /\ Len(d.chunks) = 2
    /\ d.chunks[1] = Chunk("fmt ", 16)
    /\ d.chunks[2].id = "data"
    /\ d.fmt.numChannels > 0
    /\ d.len > MinWavLen
    /\ d.len >= MinWavLen + d.chunks[2].size

\* C9: a data chunk under a fmt chunk with an unsupported format code or
\* bit depth is refused with UnsupportedEncoding, whatever its length.
C9_Unsupported ==
    (Done /\ parsed /\ ReachesData(audioData)
        /\ UnsupportedFmt(audioData.fmt))
        => (result.kind = "err" /\ KindOf(result.err) = "UnsupportedEncoding")

\* C10: a payload tagged .mp3, .ogg, .webm or .m4a is never parsed and
\* never reaches inference, and Transcribe returns an UnsupportedEncoding
\* error for it.
C10_NonRiff ==
    format \in NonRiffFormats
        => /\ ~parsed
           /\ ~inferenceRan
           /\ pc \in {"idle", "returned"}
           /\ pc = "returned"
                 => (result.kind = "err"
                     /\ KindOf(result.err) = "UnsupportedEncoding")

\* C10 witness: an .mp3 request carrying a well-formed long WAV payload
\* has returned its error.
C10_Witness ==
    /\ pc = "returned"
    /\ format = ".mp3"
    /\ audioData \in LongPayloads
    /\ ParseWAV(audioData).kind = "ok"
    /\ result.kind = "err"

-----------------------------------------------------------------------------
(* Claims about the runtime environment.                                   *)

SessionsLive == live["encoderSession"] + live["decoderSession"]

\* C4: when the program has shut down after Run, the runtime environment
\* has been destroyed exactly once, and it was not destroyed while a
\* session was alive.
C4_DestroyedOnce ==
    /\ pcMain = "exited" => nDestroyEnv = 1
    /\ (~envInit /\ nDestroyEnv > 0) => SessionsLive = 0

\* C5: whatever NewTranscriber, Transcribe and Close calls are made, the
\* environment is initialized at most once, and a session is alive only
\* while the environment is initialized.
C5_InitOnce ==
    /\ nInit <= 1
    /\ SessionsLive > 0 => envInit

-----------------------------------------------------------------------------
(* Claims about the functions of the audio front end.                      *)

\* C11: for every input length n and every source rate Rs > 0 resample
\* returns exactly floor(n * 16000 / Rs) samples, and for Rs = 16000 it
\* returns its argument itself.
C11_ResampleLen ==
    fnCall.fn = "resample"
        => /\ fnCall.ret.len = (fnCall.n * TargetRate) \div fnCall.srcRate
           /\ fnCall.srcRate = TargetRate
                 => (fnCall.ret.same /\ fnCall.ret.len = fnCall.n)

\* C12: for every buffer of fewer than 400 samples Extract returns no
\* frame.
C12_ShortBuffer ==
    (fnCall.fn = "extract" /\ fnCall.n < WinLength) => fnCall.ret = << >>

\* C13: for every buffer of n >= 400 samples Extract returns
\* floor((n - 400) / 160) + 1 rows, each of length nMels (128 under the
\* default configuration), row k computed from the samples
\* [160k, 160k + 400), which lie inside the buffer.
C13_Frames ==
    (fnCall.fn = "extract" /\ fnCall.n >= WinLength)
        => /\ Len(fnCall.ret) = (fnCall.n - WinLength) \div HopLength + 1
           /\ \A k \in DOMAIN fnCall.ret :
                 LET row == fnCall.ret[k]
                 IN  /\ row.width = fnCall.nMels
                     /\ fnCall.nMels = DefaultFeaturesSize => row.width = 128
                     /\ row.window.start = HopLength * (k - 1)
                     /\ row.window.end = row.window.start + WinLength
                     /\ row.window.end <= fnCall.n

\* C13 witness: a buffer whose last window ends exactly at its last
\* sample, with three rows of the default width.
C13_Witness ==
    /\ fnCall.fn = "extract"
    /\ fnCall.n = WinLength + 2 * HopLength
    /\ fnCall.nMels = DefaultFeaturesSize
    /\ Len(fnCall.ret) = 3
    /\ fnCall.ret[3].window.end = fnCall.n

-----------------------------------------------------------------------------
(* Claims about the vocabulary and the detokenizer.                        *)

\* a line of the form <piece> <id>
WellFormed(line) == Len(SplitN2(line)) = 2 /\ Atoi(SplitN2(line)[2]).ok
LineId(line) == Atoi(SplitN2(line)[2]).n
LinePiece(line) == ReplaceMarker(SplitN2(line)[1])

\* line i is well formed and no earlier line has its id
Contributes(file, i) ==
    /\ WellFormed(file[i])
    /\ \A j \in 1 .. i - 1 :
          WellFormed(file[j]) => LineId(file[j]) # LineId(file[i])

\* C14: the loaded map has one entry per well-formed line that is not a
\* duplicate, vocabSize is that number, and the entry a line contributed
\* is still there at the end: later lines neither overwrite nor remove it.
C14_VocabEntries ==
    fnCall.fn = "loadVocab"
        => LET file == fnCall.file
               firsts == {i \in DOMAIN file : Contributes(file, i)}
           IN  /\ Cardinality(DOMAIN fnCall.ret.vocab) = Cardinality(firsts)
               /\ fnCall.ret.vocabSize = Cardinality(firsts)
               /\ \A i \in firsts :
                     /\ LineId(file[i]) \in DOMAIN fnCall.ret.vocab
                     /\ fnCall.ret.vocab[LineId(file[i])] = LinePiece(file[i])

\* the piece a file gives an id, as written in the file
RawPiece(file, id) ==
    LET i == CHOOSE j \in DOMAIN file :
                 WellFormed(file[j]) /\ LineId(file[j]) = id
    IN  SplitN2(file[i])[1]

DefinedIds(file) ==
    {LineId(file[j]) : j \in {k \in DOMAIN file : WellFormed(file[k])}}

NotMarker(c) == c # Marker

\* a piece of the form <NAME>, with or without a word-boundary marker
ControlForm(raw) == IsControl(SelectSeq(raw, NotMarker))

\* the tokens of a list that are not control pieces of the file
RECURSIVE WithoutControl(_, _)
WithoutControl(toks, file) ==
    IF toks = << >> THEN << >>
    ELSE LET tok == Head(toks)
             rest == WithoutControl(Tail(toks), file)
         IN  IF tok \in DefinedIds(file) /\ ControlForm(RawPiece(file, tok))
             THEN rest ELSE << tok >> \o rest

\* C15: control pieces contribute no character: the text is the text of
\* the token list with the control tokens taken out.
C15_NoControl ==
    fnCall.fn = "tokensToText"
        => fnCall.ret =
              TokensToText(WithoutControl(fnCall.tokens, fnCall.file),
                           LoadVocab(fnCall.file, DefaultBlankIdx).vocab)

\* C16: the text has no two consecutive ASCII spaces and neither starts
\* nor ends with white space.
C16_Spacing ==
    fnCall.fn = "tokensToText"
        => LET t == fnCall.ret
           IN  /\ \A i \in 1 .. Len(t) - 1 : ~(t[i] = " " /\ t[i + 1] = " ")
               /\ t # << >> => (~IsSpace(t[1]) /\ ~IsSpace(t[Len(t)]))

\* C16 witness: the pieces " b", " ", " b" join to a text with a leading
\* space and a run of two spaces; the text returned is "b b".
C16_Witness ==
    /\ fnCall.fn = "tokensToText"
    /\ fnCall.file = FullVocabFile
    /\ fnCall.tokens = << 1, 5, 1 >>
    /\ fnCall.ret = << "b", " ", "b" >>

\* C17: when the only token emitted is a piece that starts with U+2581,
\* the text is an ASCII space followed by the body of the piece, and no
\* U+2581 is left in it.
C17_LeadingMarker ==
    (/\ fnCall.fn = "tokensToText"
     /\ Len(fnCall.tokens) = 1
     /\ fnCall.tokens[1] \in DefinedIds(fnCall.file)
     /\ Head(RawPiece(fnCall.file, fnCall.tokens[1])) = Marker
     /\ ~ControlForm(RawPiece(fnCall.file, fnCall.tokens[1])))
        => /\ fnCall.ret
                = << " " >> \o Tail(RawPiece(fnCall.file, fnCall.tokens[1]))
           /\ \A i \in DOMAIN fnCall.ret : fnCall.ret[i] # Marker

-----------------------------------------------------------------------------
(* Claims about convertToFloat32.                                          *)

\* -1.0 <= x <= 1.0
InUnit(x) ==
    /\ x.kind = "fin"
    /\ \/ x.f.zero
       \/ x.f.e < -(MantBits - 1)
       \/ x.f.e = -(MantBits - 1) /\ x.f.m = MantMin

\* 8-bit unsigned, 16-, 24- and 32-bit signed integer, 32-bit float
SupportedEncoding(audioFormat, bitsPerSample) ==
    \/ audioFormat = 1 /\ bitsPerSample \in {8, 16, 24, 32}
    \/ audioFormat = 3 /\ bitsPerSample = 32

\* C18: for every supported encoding, every channel count and every data
\* payload, each sample convertToFloat32 returns lies in [-1.0, 1.0], and
\* a 24-bit sample whose high bit is set maps into [-1.0, 0.0).
C18_SampleRange ==
    (/\ fnCall.fn = "convertToFloat32"
     /\ SupportedEncoding(fnCall.audioFormat, fnCall.bitsPerSample))
    => /\ fnCall.res.kind = "ok"
       /\ \A i \in 1 .. Len(fnCall.ret) :
             /\ InUnit(fnCall.ret[i])
             /\ (/\ fnCall.bitsPerSample = 24
                 /\ fnCall.numChannels = 1
                 /\ fnCall.data[3 * i] >= 128)
                => fnCall.ret[i].neg

-----------------------------------------------------------------------------
(* Claims about the native library path.                                   *)

\* the fixed list as the specification gives it
FixedList ==
    << "/usr/lib/libonnxruntime.so",
       "/usr/lib/x86_64-linux-gnu/libonnxruntime.so",
       "/usr/local/lib/libonnxruntime.so",
       "/opt/onnxruntime/lib/libonnxruntime.so",
       "./libonnxruntime.so" >>

\* C19: NewTranscriber takes the library path from ONNXRUNTIME_LIB and,
\* only when that is unset, the first existing path of the fixed list of
\* five locations, in order; no other path is ever selected, and when none
\* is found it fails with "library not found" without initializing the
\* runtime.
C19_LibPath ==
    fnCall.fn = "initRuntime"
    => LET chosen == IF fnCall.env # "" THEN fnCall.env
                     ELSE FirstExisting(FixedList, fnCall.exists)
       IN  /\ fnCall.ret.libPath = chosen
           /\ chosen = "" => /\ ~fnCall.ret.initCalled
                             /\ fnCall.ret.err = "ONNX Runtime library not found"

-----------------------------------------------------------------------------
(* Claims about concurrent requests.                                       *)

\* C20: under any interleaving of concurrent Transcribe calls on one
\* shared Transcriber, each tensor and each session is created, used and
\* destroyed by exactly one request: none is reachable from two requests,
\* and no Transcriber field is written after NewTranscriber has returned.
C20_NoSharing ==
    /\ fieldWrites = 0
    /\ ~foreign
    /\ \A th \in Threads : \A h \in Reach(th) : h[1] = th
    /\ \A t1 \in Threads : \A t2 \in Threads \ {t1} :
          Reach(t1) \cap Reach(t2) = {}

\* two requests are inside tdtDecode at the same time, each holding its
\* encoder and its decoder session, and one has run its decoder before
C20_Witness ==
    /\ cpc[1] = "TD_run"
    /\ cpc[2] = "TD_run"
    /\ csteps[1] = 1
    /\ << 1, "decoderSession" >> \in locals[1]
    /\ << 2, "encoderSession" >> \in locals[2]
    /\ << 2, "decoderSession" >> \in locals[2]

-----------------------------------------------------------------------------
(* Claims about one tdtDecode iteration.                                   *)

\* the iteration in which decoderSession.Run succeeded
RunStep == pc = "TD_run" /\ pc' = "TD_cleanup"

\* tokens appended at this time pointer, this iteration's one counted
Counted == IF decToken' # blankIdx THEN emittedTokens + 1 ELSE emittedTokens

\* C21: in each tdtDecode iteration with token argmax tok and duration
\* argmax step: if step > 0 then t becomes t + step and emitted becomes 0;
\* if step = 0 and tok is the blank or emitted, this iteration's emission
\* counted, is at least 10, then t becomes t + 1 and emitted becomes 0;
\* otherwise t is unchanged and the loop runs again at the same t.
C21_DurationRule ==
    [][RunStep =>
         IF decStep' > 0
         THEN timestep' = timestep + decStep' /\ emittedTokens' = 0
         ELSE IF decToken' = blankIdx \/ Counted >= 10
              THEN timestep' = timestep + 1 /\ emittedTokens' = 0
              ELSE /\ timestep' = timestep
                   /\ emittedTokens' = Counted
                   /\ LoopContinues(timestep', encodedLen)]_vars

\* C21 witness: an iteration with duration 0 and a non-blank token that
\* moved the time pointer to the last frame because the ceiling was reached
C21_Witness ==
    /\ pc = "TD_cleanup"
    /\ decStep = 0
    /\ decToken # blankIdx
    /\ emittedTokens = 0
    /\ timestep = 1
    /\ Len(tokens) = MaxTokensPerStep

\* C22: in every tdtDecode iteration whose token argmax is the blank
\* index, the recurrent states s1 and s2, the previous token and the token
\* list are left unchanged; the recurrent states change only in iterations
\* that append a non-blank token.
C22_BlankKeepsState ==
    [][/\ (RunStep /\ decToken' = blankIdx)
            => UNCHANGED << state1, state2, prevToken, tokens >>
       /\ (/\ pc \in LoopPcs /\ pc' \in LoopPcs
           /\ << state1, state2 >>' # << state1, state2 >>)
            => /\ RunStep
               /\ decToken' # blankIdx
               /\ tokens' = Append(tokens, decToken')]_vars

\* C22 witness: a blank iteration after an iteration that appended a token:
\* the states are still those of the earlier iteration
C22_Witness ==
    /\ pc = "TD_cleanup"
    /\ decToken = blankIdx
    /\ tokens # << >>
    /\ state1 > 0
    /\ state1 < iters
    /\ state2 = state1

\* the request is at the start of an iteration or creating its tensors
IterationStart == pc \in {"TD_new", "TD_session", "TD_run"}

\* C23: at the start of every tdtDecode iteration the token fed to the
\* decoder as targets equals the last element of the token list, or the
\* blank index if the list is empty, and the states fed to the decoder are
\* the output states of the iteration that appended that last token (all
\* zeros if the list is empty): they are taken in the iteration that
\* appends a token and kept while the list stays as it is.
C23_DecoderInputs ==
    /\ [](IterationStart =>
            /\ prevToken = IF tokens = << >> THEN blankIdx
                           ELSE tokens[Len(tokens)]
            /\ tokens = << >> => (state1 = 0 /\ state2 = 0))
    /\ [][(pc \in LoopPcs /\ pc' \in LoopPcs) =>
            IF tokens' # tokens
            THEN state1' = iters' /\ state2' = iters'
            ELSE UNCHANGED << state1, state2 >>]_vars

\* C23 witness: an iteration starts with two tokens in the list, the
\* states being those of the second of three completed iterations
C23_Witness ==
    /\ pc = "TD_new"
    /\ created = 0
    /\ Len(tokens) = 2
    /\ iters = 3
    /\ state1 = 2
    /\ state2 = 2
    /\ prevToken = tokens[2]

-----------------------------------------------------------------------------
(* Claims about the encoder output.                                        *)

\* C24: for every encoder length T'_actual reported in encoded_lengths[0],
\* also one smaller than the allocated T' = floor((T-1)/subsampling) + 1,
\* and every t < T'_actual, the slice passed to the decoder at time t is
\* column t of the encoder output tensor of shape [1, 1024, T']: its
\* element d is the tensor element at position (0, d, t); the loop runs
\* over exactly the t in [0, T'_actual).
C24_Column ==
    fnCall.fn = "encOutSlice"
    => /\ fnCall.allocated = (fnCall.numFrames - 1) \div 8 + 1
       /\ fnCall.timestep \in 0 .. fnCall.encodedLen - 1
       /\ \A d \in 0 .. fnCall.encoderDim - 1 :
             fnCall.ret[d] = << d, fnCall.timestep >>

-----------------------------------------------------------------------------
(* Claims about the order of the Destroy calls.                            *)

\* the input and output tensors a session is created with
BoundTo(session) ==
    IF session = "encoderSession"
    THEN {"inputTensor", "lengthTensor", "outputTensor", "outLenTensor"}
    ELSE {DecTensors[i] : i \in DOMAIN DecTensors}

\* C25: on every exit path of runInference and of each tdtDecode step,
\* every tensor bound to a session is destroyed before that session is
\* destroyed: a session is never destroyed while one of its input or
\* output tensors is still live.
C25_TensorsFirst ==
    [][\A session \in Sessions :
          live'[session] < live[session]
          => \A x \in BoundTo(session) : live[x] = 0]_vars

-----------------------------------------------------------------------------
(* Claims about the token list.                                            *)

\* C26: the token list returned by tdtDecode never contains the blank
\* index and never contains the id of a control token (a vocab piece of
\* the form <NAME>), for every sequence of decoder outputs.
C26_TokenList ==
    (pc = "RI_return" /\ rtErr = "nil")
    => \A i \in DOMAIN tokens :
          /\ tokens[i] # blankIdx
          /\ tokens[i] \in DOMAIN vocab => ~IsControl(vocab[tokens[i]])

\* the steps left to a request whose runtime call failed: Destroy calls and
\* returns
FailurePath == {"TD_fail", "RI_return", "T_return", "returned"}

\* C27: once a tensor creation, a session creation or a run has failed, the
\* request makes no runtime call but Destroy calls (nothing is created, no
\* session is run, no decoder iteration is started) and Transcribe returns
\* the empty text with an error that wraps the error of the failed call.
C27_FailureIsFinal ==
    /\ [](pc = "returned" /\ rtErr # "nil"
            => /\ result = ErrResult("inference failed", rtErr)
               /\ result.text = << >>)
    /\ [][rtErr # "nil" /\ pc # "returned"
            => /\ pc \in FailurePath
               /\ pc' \in FailurePath
               /\ rtErr' = rtErr
               /\ \A o \in DOMAIN live : live'[o] <= live[o]
               /\ iters' = iters
               /\ encodedLen' = encodedLen]_vars

\* C27 witness: a request whose encoder reported more than one frame and
\* whose decoder then failed has returned the error and no text, with every
\* object destroyed.
C27_Witness ==
    /\ pc = "returned"
    /\ result = ErrResult("inference failed", ErrRuntime)
    /\ encodedLen > 1
    /\ LiveCount = 0

\* C28: whenever NewTranscriber returns an error (the program then stops
\* before it serves anything), the runtime environment is not left
\* initialized.
C28_NoEnvOnError == pcMain = "fatalNew" => ~envInit

\* C29: for every payload handed to parseWAV, parseWAV and convertToFloat32
\* come back with samples or with an error: no read outside the payload and
\* no division by zero (channel count 0, fewer than 8 bits per sample)
\* aborts the call.
C29_NoAbort == parsed => pc # "panicked"

-----------------------------------------------------------------------------
(* Claims about the emission counter.                                      *)

\* tokens this step appended to the list
Appended == Len(tokens') - Len(tokens)

\* C30: at the start of every tdtDecode iteration 0 <= emitted < 10, and
\* emitted is the number of tokens appended since the time pointer last
\* changed: it is 0 when the loop is entered and after every iteration that
\* changes the time pointer, and every other iteration adds to it the
\* tokens it appended.
C30_EmittedCount ==
    /\ [](IterationStart =>
            /\ 0 <= emittedTokens
            /\ emittedTokens < 10
            /\ iters = 0 => emittedTokens = 0)
    /\ [][(pc \in LoopPcs /\ pc' \in LoopPcs) =>
            emittedTokens' = IF timestep' # timestep THEN 0
                             ELSE emittedTokens + Appended]_vars

\* C30 witness: an iteration starts with nine tokens appended since the
\* time pointer moved to the second frame, one token appended before
C30_Witness ==
    /\ pc = "TD_run"
    /\ timestep = 1
    /\ emittedTokens = MaxTokensPerStep - 1
    /\ Len(tokens) = MaxTokensPerStep


====
